---------------------------- MODULE Spec2Model ----------------------------
(***************************************************************************)
(* A small-step model of src/main.c: every function of the program is a    *)
(* frame kind on a call stack, every statement is an action.  The width of *)
(* int and the treatment of signed overflow (undefined behaviour in C) are *)
(* properties of the build: a build either wraps in two's complement or    *)
(* traps, and the model explores both.                                     *)
(***************************************************************************)
EXTENDS Integers, Sequences, FiniteSets, TLC

VARIABLES
    bits,    \* width of int in this build
    trapv,   \* TRUE: signed overflow traps; FALSE: it wraps
    entry,   \* the call under observation: [fn, args]
    stack,   \* call stack, the running frame last
    ret,     \* value of the last executed return statement
    status,  \* "running", "returned" (entry call returned) or "trapped"
    out,     \* characters written to standard output
    ovf,     \* the places where a signed overflow has happened
    iters,   \* loop bodies entered by the kernel that ran last
    steps    \* statements executed so far (counted up to MaxSteps)

vars == <<bits, trapv, entry, stack, ret, status, out, ovf, iters, steps>>

(***************************************************************************)
(* Bounds of the exploration.                                              *)
(***************************************************************************)
SmallBits == 7     \* a narrow int whose whole range is explored
MaxArg    == 13    \* arguments -MaxArg..MaxArg are explored on wide ints
MaxSteps  == 9000  \* the count of executed statements stops here

(***************************************************************************)
(* The int type.  All operators below avoid building a number outside the  *)
(* range of the width w they describe.                                     *)
(***************************************************************************)
INT_MAX_of(w) == 2 * (2^(w - 2) - 1) + 1
INT_MIN_of(w) == -INT_MAX_of(w) - 1

INT_MAX == INT_MAX_of(bits)
INT_MIN == INT_MIN_of(bits)

\* a + b is not representable
AddOverflows(a, b, m) ==
    \/ b > 0 /\ a > m - b
    \/ b < 0 /\ a < (-m - 1) - b

\* a + b reduced modulo 2^w into the signed range
AddWrap(a, b, m) ==
    IF b > 0 /\ a > m - b THEN ((a - m) - 1) + ((b - m) - 1)
    ELSE IF b < 0 /\ a < (-m - 1) - b THEN ((a + m) + 1) + ((b + m) + 1)
    ELSE a + b

\* a * b is not representable
MulOverflows(a, b, m) ==
    IF a = 0 \/ b = 0 THEN FALSE
    ELSE IF a > 0 /\ b > 0 THEN a > m \div b
    ELSE IF a < 0 /\ b < 0
         THEN a = -m - 1 \/ b = -m - 1 \/ (-a) > m \div (-b)
    ELSE LET p == IF a > 0 THEN a ELSE b
             q == IF a > 0 THEN b ELSE a
         IN  IF q = -m - 1 THEN p > 1
             ELSE IF q = -1 THEN FALSE
             ELSE p > ((m + (q + 1)) \div (-q)) + 1

\* a * b reduced modulo 2^w into the signed range (double and add)
RECURSIVE MulWrap(_, _, _)
MulWrap(a, b, m) ==
    IF b = 0 THEN 0
    ELSE IF b = -1 THEN (IF a = -m - 1 THEN a ELSE -a)
    ELSE LET h == MulWrap(a, b \div 2, m)
             d == AddWrap(h, h, m)
         IN  IF b % 2 = 0 THEN d ELSE AddWrap(d, a, m)

(***************************************************************************)
(* Call stack.                                                             *)
(***************************************************************************)
top == stack[Len(stack)]

NewFrame(fn, args) ==
    CASE fn \in {"add", "multiply"} ->
            [fn |-> fn, pc |-> "body", a |-> args[1], b |-> args[2]]
      [] fn = "process" ->
            [fn |-> fn, pc |-> "start", mode |-> args[1], value |-> args[2]]
      [] fn \in {"compute_series", "compute_product"} ->
            [fn |-> fn, pc |-> "start", n |-> args[1]]
      [] fn = "main" ->
            [fn |-> fn, pc |-> "start"]
      [] OTHER ->
            [fn |-> fn, pc |-> "start", x |-> args[1]]

Running(fn, pc) ==
    /\ status = "running"
    /\ top.fn = fn
    /\ top.pc = pc

\* the running frame becomes f
Goto(f) ==
    /\ stack' = [stack EXCEPT ![Len(stack)] = f]
    /\ UNCHANGED <<ret, status>>

\* the running frame becomes f and calls fn(args)
Call(f, fn, args) ==
    /\ stack' = Append([stack EXCEPT ![Len(stack)] = f], NewFrame(fn, args))
    /\ UNCHANGED <<ret, status>>

\* return v;
Return(v) ==
    /\ stack' = SubSeq(stack, 1, Len(stack) - 1)
    /\ ret' = v
    /\ status' = IF Len(stack) = 1 THEN "returned" ELSE "running"

\* A signed int operation at the named place is exact when its result is
\* representable; otherwise it is undefined behaviour, and the build either
\* traps or goes on with the wrapped value.
Signed(site, overflows) ==
    ovf' = IF overflows THEN ovf \cup {site} ELSE ovf

Traps(overflows) == overflows /\ trapv

Trap ==
    /\ status' = "trapped"
    /\ UNCHANGED <<stack, ret>>

Value(overflows, exact, wrapped) == IF overflows THEN wrapped ELSE exact

\* one statement executed by one build
Build ==
    /\ UNCHANGED <<bits, trapv, entry>>
    /\ steps' = IF steps < MaxSteps THEN steps + 1 ELSE steps

(***************************************************************************)
(* Utility functions                                                       *)
(***************************************************************************)
add ==
    /\ Running("add", "body")
    /\ LET o == AddOverflows(top.a, top.b, INT_MAX)
       IN  /\ Signed("add", o)
           /\ IF Traps(o) THEN Trap
              ELSE Return(Value(o, top.a + top.b,
                              AddWrap(top.a, top.b, INT_MAX)))
    /\ UNCHANGED <<out, iters>>
    /\ Build

multiply ==
    /\ Running("multiply", "body")
    /\ LET o == MulOverflows(top.a, top.b, INT_MAX)
       IN  /\ Signed("multiply", o)
           /\ IF Traps(o) THEN Trap
              ELSE Return(Value(o, top.a * top.b,
                              MulWrap(top.a, top.b, INT_MAX)))
    /\ UNCHANGED <<out, iters>>
    /\ Build

square_call ==
    /\ Running("square", "start")
    /\ Call([top EXCEPT !.pc = "multiply_ret"], "multiply", <<top.x, top.x>>)
    /\ UNCHANGED <<out, iters, ovf>>
    /\ Build

square_return ==
    /\ Running("square", "multiply_ret")
    /\ Return(ret)
    /\ UNCHANGED <<out, iters, ovf>>
    /\ Build

(***************************************************************************)
(* Computational kernels                                                   *)
(***************************************************************************)
\* mutant: the loop of compute_series runs once too often
SeriesCond_le(i, n) == i <= n

\* for (...; i < n; ...)
SeriesCond(i, n) == i < n

\* mutant: the loop of compute_product stops one factor early
ProductCond_lt(i, n) == i < n

\* for (...; i <= n; ...)
ProductCond(i, n) == i <= n

\* one more loop body entered (the count saturates above INT_MAX)
Entered(k) == IF k > INT_MAX THEN k ELSE k + 1

compute_series_init ==
    /\ Running("compute_series", "start")
    /\ Goto([fn |-> "compute_series", pc |-> "test", n |-> top.n,
             sum |-> 0, i |-> 0])
    /\ iters' = 0
    /\ UNCHANGED <<out, ovf>>
    /\ Build

compute_series_loop ==
    /\ Running("compute_series", "test")
    /\ SeriesCond(top.i, top.n)
    /\ Call([top EXCEPT !.pc = "square_ret"], "square", <<top.i>>)
    /\ iters' = Entered(iters)
    /\ UNCHANGED <<out, ovf>>
    /\ Build

\* mutant: the counter is added, not its square
compute_series_square_ret_linear ==
    /\ Running("compute_series", "square_ret")
    /\ Call([top EXCEPT !.pc = "add_ret"], "add", <<top.sum, top.i>>)
    /\ UNCHANGED <<out, iters, ovf>>
    /\ Build

compute_series_square_ret ==
    /\ Running("compute_series", "square_ret")
    /\ Call([top EXCEPT !.pc = "add_ret"], "add", <<top.sum, ret>>)
    /\ UNCHANGED <<out, iters, ovf>>
    /\ Build

compute_series_add_ret ==
    /\ Running("compute_series", "add_ret")
    /\ Goto([top EXCEPT !.sum = ret, !.pc = "inc"])
    /\ UNCHANGED <<out, iters, ovf>>
    /\ Build

compute_series_inc ==
    /\ Running("compute_series", "inc")
    /\ LET o == AddOverflows(top.i, 1, INT_MAX)
             v == Value(o, top.i + 1, AddWrap(top.i, 1, INT_MAX))
       IN  /\ Signed("compute_series.i++", o)
           /\ IF Traps(o) THEN Trap
              ELSE Goto([top EXCEPT !.i = v, !.pc = "test"])
    /\ UNCHANGED <<out, iters>>
    /\ Build

compute_series_exit ==
    /\ Running("compute_series", "test")
    /\ ~SeriesCond(top.i, top.n)
    /\ Goto([top EXCEPT !.pc = "return"])
    /\ UNCHANGED <<out, iters, ovf>>
    /\ Build

compute_series_return ==
    /\ Running("compute_series", "return")
    /\ Return(top.sum)
    /\ UNCHANGED <<out, iters, ovf>>
    /\ Build

compute_product_init ==
    /\ Running("compute_product", "start")
    /\ Goto([fn |-> "compute_product", pc |-> "test", n |-> top.n,
             prod |-> 1, i |-> 1])
    /\ iters' = 0
    /\ UNCHANGED <<out, ovf>>
    /\ Build

compute_product_loop ==
    /\ Running("compute_product", "test")
    /\ ProductCond(top.i, top.n)
    /\ Call([top EXCEPT !.pc = "multiply_ret"], "multiply", <<top.prod, top.i>>)
    /\ iters' = Entered(iters)
    /\ UNCHANGED <<out, ovf>>
    /\ Build

compute_product_multiply_ret ==
    /\ Running("compute_product", "multiply_ret")
    /\ Goto([top EXCEPT !.prod = ret, !.pc = "inc"])
    /\ UNCHANGED <<out, iters, ovf>>
    /\ Build

compute_product_inc ==
    /\ Running("compute_product", "inc")
    /\ LET o == AddOverflows(top.i, 1, INT_MAX)
             v == Value(o, top.i + 1, AddWrap(top.i, 1, INT_MAX))
       IN  /\ Signed("compute_product.i++", o)
           /\ IF Traps(o) THEN Trap
              ELSE Goto([top EXCEPT !.i = v, !.pc = "test"])
    /\ UNCHANGED <<out, iters>>
    /\ Build

compute_product_exit ==
    /\ Running("compute_product", "test")
    /\ ~ProductCond(top.i, top.n)
    /\ Goto([top EXCEPT !.pc = "return"])
    /\ UNCHANGED <<out, iters, ovf>>
    /\ Build

compute_product_return ==
    /\ Running("compute_product", "return")
    /\ Return(top.prod)
    /\ UNCHANGED <<out, iters, ovf>>
    /\ Build

(***************************************************************************)
(* Helper functions                                                        *)
(***************************************************************************)
\* mutant: helper_A adds the wrong constant
helper_A_call_one ==
    /\ Running("helper_A", "start")
    /\ Call([top EXCEPT !.pc = "add_ret"], "add", <<top.x, 1>>)
    /\ UNCHANGED <<out, iters, ovf>>
    /\ Build

helper_A_call ==
    /\ Running("helper_A", "start")
    /\ Call([top EXCEPT !.pc = "add_ret"], "add", <<top.x, 10>>)
    /\ UNCHANGED <<out, iters, ovf>>
    /\ Build

helper_A_return ==
    /\ Running("helper_A", "add_ret")
    /\ Return(ret)
    /\ UNCHANGED <<out, iters, ovf>>
    /\ Build

\* helper_A(x) + square(x): C leaves the order of the two calls to the
\* build, so either operand may be evaluated first.
helper_B_eval_lhs ==
    /\ Running("helper_B", "start")
    /\ "lhs" \notin DOMAIN top
    /\ Call([top EXCEPT !.pc = "helper_A_ret"], "helper_A", <<top.x>>)
    /\ UNCHANGED <<out, iters, ovf>>
    /\ Build

helper_B_lhs_ret ==
    /\ Running("helper_B", "helper_A_ret")
    /\ Goto(("lhs" :> ret) @@ [top EXCEPT !.pc = "start"])
    /\ UNCHANGED <<out, iters, ovf>>
    /\ Build

helper_B_eval_rhs ==
    /\ Running("helper_B", "start")
    /\ "rhs" \notin DOMAIN top
    /\ Call([top EXCEPT !.pc = "square_ret"], "square", <<top.x>>)
    /\ UNCHANGED <<out, iters, ovf>>
    /\ Build

helper_B_rhs_ret ==
    /\ Running("helper_B", "square_ret")
    /\ Goto(("rhs" :> ret) @@ [top EXCEPT !.pc = "start"])
    /\ UNCHANGED <<out, iters, ovf>>
    /\ Build

helper_B_return ==
    /\ Running("helper_B", "start")
    /\ {"lhs", "rhs"} \subseteq DOMAIN top
    /\ LET o == AddOverflows(top.lhs, top.rhs, INT_MAX)
       IN  /\ Signed("helper_B", o)
           /\ IF Traps(o) THEN Trap
              ELSE Return(Value(o, top.lhs + top.rhs,
                              AddWrap(top.lhs, top.rhs, INT_MAX)))
    /\ UNCHANGED <<out, iters>>
    /\ Build

(***************************************************************************)
(* Dispatcher function                                                     *)
(***************************************************************************)
\* mutant: only mode 2 reaches helper_B
Dispatch_strict(mode) ==
    IF mode = 0 THEN "compute_series"
    ELSE IF mode = 2 THEN "helper_B"
    ELSE "compute_product"

Dispatch(mode) ==
    IF mode = 0 THEN "compute_series"
    ELSE IF mode = 1 THEN "compute_product"
    ELSE "helper_B"

process_call ==
    /\ Running("process", "start")
    /\ Call([top EXCEPT !.pc = "callee_ret"], Dispatch(top.mode), <<top.value>>)
    /\ UNCHANGED <<out, iters, ovf>>
    /\ Build

process_return ==
    /\ Running("process", "callee_ret")
    /\ Return(ret)
    /\ UNCHANGED <<out, iters, ovf>>
    /\ Build

(***************************************************************************)
(* Cyclic calls                                                            *)
(***************************************************************************)
\* mutant: zero is not a base case
Cycle1Base_neg(x) == x < 0

\* if (x <= 0) return x;
Cycle1Base(x) == x <= 0

cycle_1_base ==
    /\ Running("cycle_1", "start")
    /\ Cycle1Base(top.x)
    /\ Return(top.x)
    /\ UNCHANGED <<out, iters, ovf>>
    /\ Build

cycle_1_call ==
    /\ Running("cycle_1", "start")
    /\ ~Cycle1Base(top.x)
    /\ LET o == AddOverflows(top.x, -1, INT_MAX)
             v == Value(o, top.x - 1, AddWrap(top.x, -1, INT_MAX))
       IN  /\ Signed("cycle_1", o)
           /\ IF Traps(o) THEN Trap
              ELSE Call([top EXCEPT !.pc = "cycle_2_ret"], "cycle_2", <<v>>)
    /\ UNCHANGED <<out, iters>>
    /\ Build

cycle_1_return ==
    /\ Running("cycle_1", "cycle_2_ret")
    /\ Return(ret)
    /\ UNCHANGED <<out, iters, ovf>>
    /\ Build

\* mutant: cycle_2 steps down by two
cycle_2_call_two ==
    /\ Running("cycle_2", "start")
    /\ LET o == AddOverflows(top.x, -2, INT_MAX)
             v == Value(o, top.x - 2, AddWrap(top.x, -2, INT_MAX))
       IN  /\ Signed("cycle_2", o)
           /\ IF Traps(o) THEN Trap
              ELSE Call([top EXCEPT !.pc = "cycle_1_ret"], "cycle_1", <<v>>)
    /\ UNCHANGED <<out, iters>>
    /\ Build

cycle_2_call ==
    /\ Running("cycle_2", "start")
    /\ LET o == AddOverflows(top.x, -1, INT_MAX)
             v == Value(o, top.x - 1, AddWrap(top.x, -1, INT_MAX))
       IN  /\ Signed("cycle_2", o)
           /\ IF Traps(o) THEN Trap
              ELSE Call([top EXCEPT !.pc = "cycle_1_ret"], "cycle_1", <<v>>)
    /\ UNCHANGED <<out, iters>>
    /\ Build

cycle_2_return ==
    /\ Running("cycle_2", "cycle_1_ret")
    /\ Return(ret)
    /\ UNCHANGED <<out, iters, ovf>>
    /\ Build

(***************************************************************************)
(* Dead code                                                               *)
(***************************************************************************)
unused_function ==
    /\ Running("unused_function", "start")
    /\ LET o == MulOverflows(top.x, 42, INT_MAX)
       IN  /\ Signed("unused_function", o)
           /\ IF Traps(o) THEN Trap
              ELSE Return(Value(o, top.x * 42,
                              MulWrap(top.x, 42, INT_MAX)))
    /\ UNCHANGED <<out, iters>>
    /\ Build

(***************************************************************************)
(* Entry point                                                             *)
(***************************************************************************)
Digit(d) == <<"0", "1", "2", "3", "4", "5", "6", "7", "8", "9">>[d + 1]

\* decimal digits of v >= 0
RECURSIVE DecNat(_)
DecNat(v) ==
    IF v < 10 THEN <<Digit(v)>>
    ELSE Append(DecNat(v \div 10), Digit(v % 10))

\* decimal digits of the magnitude of v < 0 (never negates INT_MIN)
RECURSIVE DecNeg(_)
DecNeg(v) ==
    IF v > -10 THEN <<Digit(-v)>>
    ELSE LET d == (10 - (v % 10)) % 10
         IN  Append(DecNeg((v + d) \div 10), Digit(d))

\* the conversion %d
FormatInt(v) == IF v < 0 THEN <<"-">> \o DecNeg(v) ELSE DecNat(v)

\* mutant: the separators are left out
Format_packed(v1, v2, v3) ==
    FormatInt(v1) \o FormatInt(v2) \o FormatInt(v3) \o <<"\n">>

\* "%d %d %d\n"
Format(v1, v2, v3) ==
    FormatInt(v1) \o <<" ">> \o FormatInt(v2) \o <<" ">> \o FormatInt(v3)
        \o <<"\n">>

\* mutant: the series is twice as long
main_result1_long ==
    /\ Running("main", "start")
    /\ Call([top EXCEPT !.pc = "result1"], "process", <<0, 2000>>)
    /\ UNCHANGED <<out, iters, ovf>>
    /\ Build

main_result1 ==
    /\ Running("main", "start")
    /\ Call([top EXCEPT !.pc = "result1"], "process", <<0, 1000>>)
    /\ UNCHANGED <<out, iters, ovf>>
    /\ Build

main_result2 ==
    /\ Running("main", "result1")
    /\ Call([fn |-> "main", pc |-> "result2", result1 |-> ret],
            "process", <<1, 10>>)
    /\ UNCHANGED <<out, iters, ovf>>
    /\ Build

main_result3 ==
    /\ Running("main", "result2")
    /\ Call([fn |-> "main", pc |-> "result3", result1 |-> top.result1,
             result2 |-> ret],
            "process", <<2, 5>>)
    /\ UNCHANGED <<out, iters, ovf>>
    /\ Build

main_cycle ==
    /\ Running("main", "result3")
    /\ Call([fn |-> "main", pc |-> "cycle_1_ret", result1 |-> top.result1,
             result2 |-> top.result2, result3 |-> ret],
            "cycle_1", <<5>>)
    /\ UNCHANGED <<out, iters, ovf>>
    /\ Build

main_printf ==
    /\ Running("main", "cycle_1_ret")
    /\ out' = out \o Format(top.result1, top.result2, top.result3)
    /\ Goto([top EXCEPT !.pc = "return"])
    /\ UNCHANGED <<iters, ovf>>
    /\ Build

main_return ==
    /\ Running("main", "return")
    /\ Return(0)
    /\ UNCHANGED <<out, iters, ovf>>
    /\ Build

(***************************************************************************)
(* The builds and the calls explored.                                      *)
(***************************************************************************)
Widths == {SmallBits, 16, 32}

Values(w) ==
    IF w = SmallBits THEN INT_MIN_of(w) .. INT_MAX_of(w)
    ELSE -MaxArg .. MaxArg

Modes(w) ==
    {m \in {-1, 0, 1, 2, 99, INT_MIN_of(w), INT_MAX_of(w)} :
        INT_MIN_of(w) <= m /\ m <= INT_MAX_of(w)}

Entries(w) ==
    {[fn |-> "main", args |-> <<>>] : z \in {w} \ {SmallBits}}
    \cup {[fn |-> "process", args |-> <<m, v>>] :
              m \in Modes(w), v \in Values(w)}
    \cup {[fn |-> "compute_series", args |-> <<v>>] :
              v \in Values(w) \cup ({1000} \ {z \in {1000} : w = SmallBits})}
    \cup {[fn |-> f, args |-> <<v>>] :
              f \in {"compute_product", "helper_A", "helper_B", "cycle_1",
                     "unused_function"},
              v \in Values(w)}

Init ==
    /\ bits \in Widths
    /\ trapv \in BOOLEAN
    /\ entry \in Entries(bits)
    /\ stack = <<NewFrame(entry.fn, entry.args)>>
    /\ ret = 0
    /\ status = "running"
    /\ out = <<>>
    /\ ovf = {}
    /\ iters = 0
    /\ steps = 0

Next ==
    \/ add
    \/ multiply
    \/ square_call
    \/ square_return
    \/ compute_series_init
    \/ compute_series_loop
    \/ compute_series_square_ret
    \/ compute_series_add_ret
    \/ compute_series_inc
    \/ compute_series_exit
    \/ compute_series_return
    \/ compute_product_init
    \/ compute_product_loop
    \/ compute_product_multiply_ret
    \/ compute_product_inc
    \/ compute_product_exit
    \/ compute_product_return
    \/ helper_A_call
    \/ helper_A_return
    \/ helper_B_eval_lhs
    \/ helper_B_lhs_ret
    \/ helper_B_eval_rhs
    \/ helper_B_rhs_ret
    \/ helper_B_return
    \/ process_call
    \/ process_return
    \/ cycle_1_base
    \/ cycle_1_call
    \/ cycle_1_return
    \/ cycle_2_call
    \/ cycle_2_return
    \/ unused_function
    \/ main_result1
    \/ main_result2
    \/ main_result3
    \/ main_cycle
    \/ main_printf
    \/ main_return

Spec == Init /\ [][Next]_vars

\* The calls of cycle_1 alone, every step taken when it can be.
CycleInit == Init /\ entry.fn = "cycle_1"

CycleNext ==
    \/ cycle_1_base
    \/ cycle_1_call
    \/ cycle_1_return
    \/ cycle_2_call
    \/ cycle_2_return

CycleSpec == CycleInit /\ [][CycleNext]_vars /\ WF_vars(CycleNext)

TypeOK ==
    /\ bits \in Widths
    /\ trapv \in BOOLEAN
    /\ status \in {"running", "returned", "trapped"}
    /\ INT_MIN <= ret /\ ret <= INT_MAX
    /\ (status = "returned") = (stack = <<>>)
    /\ (status = "trapped") => trapv /\ ovf # {}

(***************************************************************************)
(* Vocabulary of the properties.                                           *)
(***************************************************************************)
Called(fn) == entry.fn = fn
Arg == entry.args[1]
Returned == status = "returned"
NoOverflow == ovf = {}
Max0(n) == IF n > 0 THEN n ELSE 0
Frames(fn) == {k \in 1 .. Len(stack) : stack[k].fn = fn}

\* lo*lo + ... + hi*hi, summed by halves
RECURSIVE SquaresBetween(_, _)
SquaresBetween(lo, hi) ==
    IF lo > hi THEN 0
    ELSE IF lo = hi THEN lo * lo
    ELSE LET mid == (lo + hi) \div 2
         IN  SquaresBetween(lo, mid) + SquaresBetween(mid + 1, hi)

\* 0*0 + 1*1 + ... + (n-1)*(n-1)
SumOfSquares(n) == SquaresBetween(0, n - 1)

\* n!
RECURSIVE Factorial(_)
Factorial(n) == IF n <= 0 THEN 1 ELSE Factorial(n - 1) * n

(***************************************************************************)
(* C2: compute_series(n) returns 0 for every n <= 0 without entering the   *)
(* loop body; for n >= 1, when nothing overflows, it returns the sum of    *)
(* i*i over i = 0 .. n-1; in particular compute_series(1) = 0,             *)
(* compute_series(2) = 1 and, on a 32-bit int, compute_series(1000) =      *)
(* 332833500.                                                              *)
(***************************************************************************)
C2_SeriesResult ==
    Called("compute_series") =>
        /\ Arg <= 0 =>
              /\ iters = 0
              /\ NoOverflow
              /\ Returned => ret = 0
        /\ Arg >= 1 /\ Returned /\ NoOverflow => ret = SumOfSquares(Arg)
        /\ Arg = 1 /\ Returned => ret = 0
        /\ Arg = 2 /\ Returned => ret = 1
        /\ Arg = 1000 /\ bits = 32 =>
              /\ NoOverflow
              /\ Returned => ret = 332833500

C2_Witness ==
    /\ Called("compute_series")
    /\ Arg = 1000
    /\ bits = 32
    /\ Returned
    /\ ret = 332833500

(***************************************************************************)
(* C3: compute_product(n) returns 1 for every n <= 0 without entering the  *)
(* loop body; for n >= 1, when nothing overflows, it returns n!, and the   *)
(* running product starts at 1 and is (i-1)! each time the loop condition  *)
(* is tested; in particular compute_product(1) = 1 and                     *)
(* compute_product(10) = 3628800.                                          *)
(***************************************************************************)
C3_ProductResult ==
    /\ Called("compute_product") =>
          /\ Arg <= 0 =>
                /\ iters = 0
                /\ NoOverflow
                /\ Returned => ret = 1
          /\ Arg >= 1 /\ Returned /\ NoOverflow => ret = Factorial(Arg)
          /\ Arg = 1 /\ Returned => ret = 1
          /\ Arg = 10 /\ bits = 32 =>
                /\ NoOverflow
                /\ Returned => ret = 3628800
    /\ \A k \in Frames("compute_product") :
          stack[k].pc = "test" /\ NoOverflow =>
              /\ stack[k].prod = Factorial(stack[k].i - 1)
              /\ stack[k].i = 1 => stack[k].prod = 1

C3_Witness ==
    /\ Called("compute_product")
    /\ Arg = 10
    /\ bits = 32
    /\ Returned
    /\ ret = 3628800

(***************************************************************************)
(* C6: when nothing overflows helper_A(x) returns x + 10 and helper_B(x)   *)
(* returns (x + 10) + x*x; helper_B(5) = 40 and helper_B(0) = 10.          *)
(***************************************************************************)
C6_HelperResult ==
    /\ Called("helper_A") /\ Returned /\ NoOverflow => ret = Arg + 10
    /\ Called("helper_B") /\ Returned /\ NoOverflow =>
          ret = (Arg + 10) + Arg * Arg
    /\ Called("helper_B") /\ Arg = 5 =>
          /\ NoOverflow
          /\ Returned => ret = 40
    /\ Called("helper_B") /\ Arg = 0 =>
          /\ NoOverflow
          /\ Returned => ret = 10

C6_Witness ==
    /\ Called("helper_B")
    /\ Arg = 5
    /\ Returned
    /\ ret = 40

(***************************************************************************)
(* C4: process(mode, value) runs compute_series(value) when mode = 0,      *)
(* compute_product(value) when mode = 1 and helper_B(value) for every      *)
(* other mode (negative and large ones too), hands back whatever that call *)
(* returned, and signals no error of its own.                              *)
(***************************************************************************)
C4_DispatchState ==
    /\ \A k \in Frames("process") :
          /\ stack[k].pc = "callee_ret" /\ k < Len(stack) =>
                /\ stack[k + 1].fn =
                      IF stack[k].mode = 0 THEN "compute_series"
                      ELSE IF stack[k].mode = 1 THEN "compute_product"
                      ELSE "helper_B"
                /\ IF stack[k].mode \in {0, 1}
                   THEN stack[k + 1].n = stack[k].value
                   ELSE stack[k + 1].x = stack[k].value
          /\ status = "trapped" => k < Len(stack)
    /\ Called("process") /\ Returned /\ NoOverflow =>
          ret = IF entry.args[1] = 0 THEN SumOfSquares(entry.args[2])
                ELSE IF entry.args[1] = 1 THEN Factorial(entry.args[2])
                ELSE (entry.args[2] + 10) + entry.args[2] * entry.args[2]

C4_Dispatch ==
    /\ []C4_DispatchState
    /\ [][status = "running" /\ top.fn = "process" /\ top.pc = "callee_ret"
              => ret' = ret /\ status' # "trapped" /\ ovf' = ovf]_vars

C4_Witness ==
    /\ Called("process")
    /\ entry.args = <<99, 5>>
    /\ Returned
    /\ ret = 40

(***************************************************************************)
(* C5: cycle_1(x) terminates for every int x; for x <= 0 it returns at     *)
(* once, without calling cycle_2.  No step of the chain overflows.         *)
(***************************************************************************)
C5_CycleState ==
    Called("cycle_1") =>
        /\ NoOverflow
        /\ status # "trapped"
        /\ Arg <= 0 =>
              /\ Frames("cycle_2") = {}
              /\ Len(stack) <= 1
              /\ Returned => ret = Arg

C5_CycleTerminates ==
    /\ []C5_CycleState
    /\ Called("cycle_1") ~> Returned

C5_Witness ==
    /\ Called("cycle_1")
    /\ bits = SmallBits
    /\ Arg = INT_MAX
    /\ Returned

(***************************************************************************)
(* C7 as stated: in the chain started by cycle_1(x) every call gets an     *)
(* argument 1 less than its caller's, the chain stops as soon as the       *)
(* argument is <= 0, and cycle_1(x) returns that final argument.           *)
(***************************************************************************)
CycleFrames == Frames("cycle_1") \cup Frames("cycle_2")

\* the argument at which the chain of cycle_1(x) ends
CycleEnd(x) == IF x <= 0 THEN x ELSE IF x % 2 = 0 THEN 0 ELSE -1

ChainDecrements ==
    \A k \in CycleFrames :
        k < Len(stack) =>
            /\ stack[k + 1].fn =
                  IF stack[k].fn = "cycle_1" THEN "cycle_2" ELSE "cycle_1"
            /\ stack[k + 1].x = stack[k].x - 1

C7_StopsAtFirstNonPositive ==
    /\ ChainDecrements
    /\ \A k \in CycleFrames : stack[k].x <= 0 => k = Len(stack)
    /\ Called("cycle_1") /\ Returned => ret <= 0

(***************************************************************************)
(* C7 amended: every call gets an argument 1 less than its caller's; the   *)
(* chain stops as soon as cycle_1 gets an argument <= 0, while cycle_2     *)
(* calls on whatever its argument is; cycle_1(x) returns that final        *)
(* argument of cycle_1 (x for x <= 0, 0 for even x > 0, -1 for odd x > 0), *)
(* which every frame of the chain passes back unchanged.                   *)
(***************************************************************************)
C7_StopsAtCycle1Base ==
    /\ ChainDecrements
    /\ \A k \in Frames("cycle_1") :
          /\ stack[k].x <= 0 => k = Len(stack)
          /\ stack[k].pc = "cycle_2_ret" /\ k = Len(stack)
                /\ status = "running" => ret = CycleEnd(stack[k].x)
    /\ \A k \in Frames("cycle_2") :
          /\ stack[k].x >= 0
          /\ stack[k].pc = "cycle_1_ret" /\ k = Len(stack)
                /\ status = "running" => ret = CycleEnd(stack[k].x - 1)
    /\ Called("cycle_1") /\ Returned => ret = CycleEnd(Arg)

C7_Witness ==
    /\ Called("cycle_1")
    /\ Arg = 5
    /\ Returned
    /\ ret = -1

(***************************************************************************)
(* C8: in the run of main on a 32-bit int no signed operation overflows    *)
(* (no add, multiply, square, subtraction or loop counter leaves the       *)
(* range), and every value held by a frame lies in [-2^31, 2^31 - 1]; on a *)
(* 16-bit int the same run has overflowed by the time it ends.             *)
(***************************************************************************)
InIntRange(v) == INT_MIN <= v /\ v <= INT_MAX

C8_MainRange ==
    Called("main") =>
        /\ bits = 32 =>
              /\ NoOverflow
              /\ status # "trapped"
              /\ InIntRange(ret)
              /\ \A k \in 1 .. Len(stack) :
                    \A f \in DOMAIN stack[k] \ {"fn", "pc"} :
                        InIntRange(stack[k][f])
        /\ bits = 16 /\ status # "running" => ~NoOverflow

C8_Witness ==
    /\ Called("main")
    /\ bits = 32
    /\ Returned
    /\ NoOverflow

(***************************************************************************)
(* C9: when nothing overflows, the running sum of compute_series after k   *)
(* iterations is (k-1)*k*(2k-1)/6 (0 for k = 0), and the result of         *)
(* compute_series(n), n >= 1, is (n-1)*n*(2n-1)/6.                         *)
(***************************************************************************)
ClosedForm(k) == IF k = 0 THEN 0 ELSE ((k - 1) * k * (2 * k - 1)) \div 6

C9_SeriesClosedForm ==
    /\ \A k \in Frames("compute_series") :
          stack[k].pc \in {"test", "return"} /\ NoOverflow =>
              /\ stack[k].i = iters
              /\ 0 <= iters /\ iters <= Max0(stack[k].n)
              /\ stack[k].sum = ClosedForm(iters)
    /\ Called("compute_series") /\ Arg >= 1 /\ Returned /\ NoOverflow =>
          ret = ClosedForm(Arg)

C9_Witness ==
    /\ Called("compute_series")
    /\ Arg = 1000
    /\ Len(stack) = 1
    /\ top.pc = "test"
    /\ top.i = 500
    /\ top.sum = 41541750

(***************************************************************************)
(* C10: for every n of the int range, the largest int included, the loops  *)
(* of compute_series and compute_product run max(n, 0) times and no more,  *)
(* the loop counter never leaves the int range, and the loops end with     *)
(* i = max(n, 0) and i = max(n, 0) + 1.                                    *)
(***************************************************************************)
C10_LoopsBounded ==
    Called("compute_series") \/ Called("compute_product") =>
        /\ "compute_series.i++" \notin ovf
        /\ "compute_product.i++" \notin ovf
        /\ iters <= Max0(Arg)
        /\ status = "running" /\ top.pc = "return" =>
              /\ iters = Max0(Arg)
              /\ top.fn = "compute_series" => top.i = Max0(Arg)
              /\ top.fn = "compute_product" => top.i = Max0(Arg) + 1

(***************************************************************************)
(* C1: on a 32-bit int the run of main terminates: it never traps, always  *)
(* has a next statement until main returns, and returns within MaxSteps    *)
(* statements with status 0.  It writes nothing before cycle_1(5) has      *)
(* returned and then exactly the line "332833500 3628800 40\n"; result1,   *)
(* result2 and result3 are what process(0, 1000), process(1, 10) and       *)
(* process(2, 5) returned.                                                 *)
(***************************************************************************)
ExpectedLine ==
    <<"3", "3", "2", "8", "3", "3", "5", "0", "0", " ",
      "3", "6", "2", "8", "8", "0", "0", " ", "4", "0", "\n">>

C1_MainRun ==
    Called("main") /\ bits = 32 =>
        /\ status # "trapped"
        /\ status = "running" => ENABLED Next
        /\ steps < MaxSteps
        /\ out \in {<<>>, ExpectedLine}
        /\ out # <<>> =>
              /\ CycleFrames = {}
              /\ Returned \/ (Len(stack) = 1 /\ top.pc = "return")
        /\ Returned => out = ExpectedLine /\ ret = 0
        /\ status = "running" =>
              /\ Len(stack) = 1 /\ top.pc = "result1" => ret = 332833500
              /\ Len(stack) = 1 /\ top.pc = "result2" => ret = 3628800
              /\ Len(stack) = 1 /\ top.pc = "result3" => ret = 40
              /\ "result1" \in DOMAIN stack[1] =>
                    stack[1].result1 = 332833500
              /\ "result2" \in DOMAIN stack[1] => stack[1].result2 = 3628800
              /\ "result3" \in DOMAIN stack[1] => stack[1].result3 = 40

C1_Witness ==
    /\ Called("main")
    /\ bits = 32
    /\ Returned
    /\ out = ExpectedLine
    /\ ret = 0

=============================================================================
